---- MODULE Spec2Model ----
(***************************************************************************)
(* The packet source/sink adapter of noisysockets (source_sink.go): its    *)
(* construction (newSourceSink), the peer registry, the notification hook  *)
(* WriteNotify, the batch Read and Write calls and Close, together with    *)
(* the goroutines that run them.                                           *)
(*                                                                         *)
(* Go semantics the model relies on:                                       *)
(*  - ss.incoming is an unbuffered channel: a send parks the sender in the *)
(*    channel's FIFO send queue until a receiver takes the value; a        *)
(*    receive of a closed channel returns at once with ok = false; a send  *)
(*    on a closed channel, and a sender parked when the channel is closed, *)
(*    panic ("send on closed channel");                                    *)
(*  - an index or a slice bound out of range panics;                       *)
(*  - a panic no caller recovers ends the whole process: nothing runs      *)
(*    afterwards.                                                          *)
(***************************************************************************)
EXTENDS Integers, Sequences, FiniteSets, TLC

\* ---------------------------------------------------------------- bounds
NumWorkers == 2      \* stack goroutines that may run the hook concurrently
MaxPackets == 2      \* packets the stack emits in one behaviour
MaxBufs == 2         \* largest batch handed to Read
MaxPktLen == 2       \* longest outbound packet (bytes, scaled down)
MaxAddPeer == 2      \* AddPeer calls in one behaviour
MaxWriteBatch == 2   \* largest batch handed to Write
MaxLocalAddrs == 2   \* local addresses handed to newSourceSink

\* ------------------------------------------------------------- constants
queueSize == 1024

Keys == {"P1", "P2"}
ZeroKey == "zero"                    \* transport.NoisePublicKey{}
Names == {"", "b"}
V4Addrs == {"10.0.0.2", "10.0.0.3"}
V6Addrs == {"fd00::2"}
Addrs == V4Addrs \cup V6Addrs

Min(a, b) == IF a < b THEN a ELSE b
Range(s) == {s[i] : i \in 1..Len(s)}

\* What the stack can put on the VNI outbound queue: the protocol number it
\* tagged the packet with, whether the header passes IsValid(pkt.Size()),
\* the destination address in the header and the packet's size.
PacketShapes ==
  {[proto |-> 4, valid |-> TRUE, dst |-> "10.0.0.2", len |-> MaxPktLen],
   [proto |-> 6, valid |-> TRUE, dst |-> "fd00::2", len |-> 1],
   [proto |-> 4, valid |-> FALSE, dst |-> "10.0.0.2", len |-> 1],
   [proto |-> 0, valid |-> TRUE, dst |-> "10.0.0.2", len |-> 1]}

Packets == {[id |-> i, proto |-> s.proto, valid |-> s.valid, dst |-> s.dst, len |-> s.len] :
              i \in 1..MaxPackets, s \in PacketShapes}

\* Local addresses: netip.Addr values. An IPv4-mapped IPv6 address is Is6 and
\* not Is4; the zero Addr ("invalid") is neither.
LocalAddrs == {"10.0.0.1", "fd00::1", "::ffff:10.0.0.1", "invalid"}
Is4(addr) == addr \in {"10.0.0.1"} \cup V4Addrs
Is6(addr) == addr \in {"fd00::1", "::ffff:10.0.0.1"} \cup V6Addrs

VARIABLES
  cpc,              \* newSourceSink: idle, sack, nic, addrs, routes, done
  localAddrs,       \* its argument
  ci,               \* its position in localAddrs (from 1)
  hasV4, hasV6,     \* its locals
  protoAddrs,       \* the protocol addresses installed on NIC 1, in order
  routes,           \* the IP versions the stack has a default route for
  cfailed,          \* a configuration step of the stack has returned an error
  cret,             \* what newSourceSink returned: [ss, net, err]
  peerNames,        \* ss.peerNames: name -> key
  peerAddresses,    \* ss.peerAddresses: key -> list of addresses
  fromPeerAddress,  \* ss.fromPeerAddress: address -> key
  addLog,           \* the AddPeer calls made, in order: [name, publicKey, addrs]
  closePc,          \* where Close is: idle, nicRemoved, stackClosed, epClosed, done
  epq,              \* ss.ep's outbound queue (channel.Endpoint)
  nextId,           \* id of the next packet the stack emits
  notifying,        \* hooks running that have not yet called ss.ep.Read()
  holding,          \* packets held by hooks that have not yet sent them
  sendq,            \* packets of the hooks parked in the send on ss.incoming
  incomingClosed,   \* ss.incoming has been closed
  panic,            \* "none", or the panic that ended the process
  rpc,              \* Read: idle, recv (line 176), drain (line 187)
  bufs, sizes, destinations, offset,   \* the arguments of the running/last Read
  count,            \* Read's local count
  rret,             \* what the last Read returned: [n, err]
  rAfterClose,      \* the running/last Read started after Close had returned
  delivered,        \* ids of the packets Read has filled in, in order
  received,         \* per packet id: how often Read took it from ss.incoming
  released,         \* per packet id: how often Read called pkt.DecRef()
  rejected,         \* ids of the packets packetFn returned an error for
  wbufs, woffset,   \* the arguments of the last Write
  wret,             \* what the last Write returned: [n, err]
  winjected,        \* what the last Write handed to ep.InjectInbound, in order
  wAfterClose,      \* the last Write started after Close had returned
  wpc,              \* Write: idle, loop (line 208), notify/send/parked (the hook
                    \* the stack runs inside InjectInbound, lines 232-237)
  wi,               \* Write's position in bufs (from 1)
  wheld             \* the packet held by the hook running inside Write

ctor == <<cpc, localAddrs, ci, hasV4, hasV6, protoAddrs, routes, cfailed, cret>>
registry == <<peerNames, peerAddresses, fromPeerAddress, addLog>>
hooks == <<epq, nextId, notifying, holding, sendq>>
pktlog == <<delivered, received, released, rejected>>
reader == <<rpc, bufs, sizes, destinations, offset, count, rret, rAfterClose, pktlog>>
wcall == <<wbufs, woffset, wret, winjected, wAfterClose>>
wctx == <<wpc, wi, wheld>>
writer == <<wcall, wctx>>
vars == <<ctor, registry, closePc, hooks, incomingClosed, panic, reader, writer>>

NoRet == [n |-> -1, err |-> "none"]
NoPacket == [id |-> 0]       \* a nil *stack.PacketBuffer

NoCret == [ss |-> "none", net |-> "none", err |-> "none"]

\* The fields of the sourceSink as lines 43-55 make them.
InitFields ==
  /\ peerNames = <<>>
  /\ peerAddresses = <<>>
  /\ fromPeerAddress = <<>>
  /\ addLog = <<>>
  /\ closePc = "idle"
  /\ epq = <<>>
  /\ nextId = 1
  /\ notifying = 0
  /\ holding = {}
  /\ sendq = <<>>
  /\ incomingClosed = FALSE
  /\ panic = "none"
  /\ rpc = "idle"
  /\ bufs = <<>>
  /\ sizes = <<>>
  /\ destinations = <<>>
  /\ offset = 0
  /\ count = 0
  /\ rret = NoRet
  /\ rAfterClose = FALSE
  /\ delivered = <<>>
  /\ received = [i \in 1..MaxPackets |-> 0]
  /\ released = [i \in 1..MaxPackets |-> 0]
  /\ rejected = {}
  /\ wbufs = <<>>
  /\ woffset = 0
  /\ wret = NoRet
  /\ winjected = <<>>
  /\ wAfterClose = FALSE
  /\ wpc = "idle"
  /\ wi = 0
  /\ wheld = NoPacket

\* The adapter of the spec's scenario: constructed with local address 10.0.0.1.
Init ==
  /\ InitFields
  /\ cpc = "done"
  /\ localAddrs = <<"10.0.0.1">>
  /\ ci = 2
  /\ hasV4 = TRUE
  /\ hasV6 = FALSE
  /\ protoAddrs = <<[proto |-> 4, addr |-> "10.0.0.1"]>>
  /\ routes = {4}
  /\ cfailed = FALSE
  /\ cret = [ss |-> "ss", net |-> "n", err |-> "nil"]

\* ------------------------------------------ newSourceSink (lines 42-109)
\* Before construction.
InitConstruct ==
  /\ InitFields
  /\ cpc = "idle"
  /\ localAddrs = <<>>
  /\ ci = 0
  /\ hasV4 = FALSE
  /\ hasV6 = FALSE
  /\ protoAddrs = <<>>
  /\ routes = {}
  /\ cfailed = FALSE
  /\ cret = NoCret

rest == <<registry, closePc, hooks, incomingClosed, panic, reader, writer>>

newSourceSink_Call(addrs) ==
  /\ cpc = "idle"
  /\ cpc' = "sack"
  /\ localAddrs' = addrs
  /\ UNCHANGED <<ci, hasV4, hasV6, protoAddrs, routes, cfailed, cret, rest>>

\* return nil, nil, fmt.Errorf(...)
cfail(err) ==
  /\ cpc' = "done"
  /\ cfailed' = TRUE
  /\ cret' = [ss |-> "nil", net |-> "nil", err |-> err]

\* lines 58-62: SetTransportProtocolOption may return an error.
newSourceSink_SetOption ==
  /\ cpc = "sack"
  /\ \/ cfail("could not enable TCP SACK")
     \/ cpc' = "nic" /\ UNCHANGED <<cfailed, cret>>
  /\ UNCHANGED <<localAddrs, ci, hasV4, hasV6, protoAddrs, routes, rest>>

\* lines 64-68: AddNotify, then CreateNIC, which may return an error.
newSourceSink_CreateNIC ==
  /\ cpc = "nic"
  /\ \/ cfail("could not create NIC") /\ UNCHANGED ci
     \/ cpc' = "addrs" /\ ci' = 1 /\ UNCHANGED <<cfailed, cret>>
  /\ UNCHANGED <<localAddrs, hasV4, hasV6, protoAddrs, routes, rest>>

\* lines 72-77: the protocol number of an address; 0 when it is neither.
protoNumber(addr) == IF Is4(addr) THEN 4 ELSE IF Is6(addr) THEN 6 ELSE 0

\* lines 71-92: one turn of the loop. AddProtocolAddress may return an error
\* (a duplicate address, say) and does for a protocol the stack does not have.
newSourceSink_AddAddress ==
  /\ cpc = "addrs"
  /\ IF ci > Len(localAddrs)
       THEN cpc' = "routes" /\ UNCHANGED <<ci, hasV4, hasV6, protoAddrs, cfailed, cret>>
       ELSE LET addr == localAddrs[ci]
            IN \/ cfail("could not add protocol address")
                    /\ UNCHANGED <<ci, hasV4, hasV6, protoAddrs>>
               \/ /\ protoNumber(addr) \in {4, 6}
                  /\ protoAddrs' = Append(protoAddrs, [proto |-> protoNumber(addr), addr |-> addr])
                  /\ hasV4' = (hasV4 \/ Is4(addr))
                  /\ hasV6' = (hasV6 \/ (~Is4(addr) /\ Is6(addr)))
                  /\ ci' = ci + 1
                  /\ UNCHANGED <<cpc, cfailed, cret>>
  /\ UNCHANGED <<localAddrs, routes, rest>>

\* A constructor that installs both default routes whatever was supplied.
defaultRoutes_both(h4, h6) == {4, 6}

\* lines 93-98: the default routes.
defaultRoutes(h4, h6) == (IF h4 THEN {4} ELSE {}) \cup (IF h6 THEN {6} ELSE {})

\* lines 93-108: the routes, the noisyNet, and return ss, n, nil.
newSourceSink_Routes ==
  /\ cpc = "routes"
  /\ routes' = defaultRoutes(hasV4, hasV6)
  /\ cpc' = "done"
  /\ cret' = [ss |-> "ss", net |-> "n", err |-> "nil"]
  /\ UNCHANGED <<localAddrs, ci, hasV4, hasV6, protoAddrs, cfailed, rest>>

\* ------------------------------------------------------------ AddPeer
\* Go maps as functions: a missing key is outside the DOMAIN.
MapPut(m, k, v) == (k :> v) @@ m

appendAddrs(pa, publicKey, addrs) ==
  IF addrs = <<>> THEN pa
  ELSE MapPut(pa, publicKey,
              (IF publicKey \in DOMAIN pa THEN pa[publicKey] ELSE <<>>) \o addrs)

\* A registry in which the first registration of an address wins.
indexAddrs_keepFirst(fpa, publicKey, addrs) ==
  [a \in (DOMAIN fpa) \cup Range(addrs) |->
     IF a \in DOMAIN fpa THEN fpa[a] ELSE publicKey]

indexAddrs(fpa, publicKey, addrs) ==
  [a \in (DOMAIN fpa) \cup Range(addrs) |->
     IF a \in Range(addrs) THEN publicKey ELSE fpa[a]]

\* AddPeer is not synchronised with Read (the maps are plain Go maps); the
\* caller serialises it with Read, so it runs only while no Read is running.
AddPeer(name, publicKey, addrs) ==
  /\ panic = "none"
  /\ rpc = "idle"
  /\ addLog' = Append(addLog, [name |-> name, publicKey |-> publicKey, addrs |-> addrs])
  /\ peerNames' = IF name # "" THEN MapPut(peerNames, name, publicKey) ELSE peerNames
  /\ peerAddresses' = appendAddrs(peerAddresses, publicKey, addrs)
  /\ fromPeerAddress' = indexAddrs(fromPeerAddress, publicKey, addrs)
  /\ UNCHANGED <<ctor, closePc, hooks, incomingClosed, panic, reader, writer>>

\* ------------------------------------------------- Close (lines 122-129)
\* Close is called at most once (single owner); its four statements are four
\* steps, so the hooks and Read interleave with them.
Close_RemoveNIC ==
  /\ panic = "none"
  /\ closePc = "idle"
  /\ closePc' = "nicRemoved"
  /\ UNCHANGED <<ctor, registry, hooks, incomingClosed, panic, reader, writer>>

Close_StackClose ==
  /\ panic = "none"
  /\ closePc = "nicRemoved"
  /\ closePc' = "stackClosed"
  /\ UNCHANGED <<ctor, registry, hooks, incomingClosed, panic, reader, writer>>

\* ep.Close() closes the endpoint's queue and drains what is left in it.
Close_EpClose ==
  /\ panic = "none"
  /\ closePc = "stackClosed"
  /\ closePc' = "epClosed"
  /\ epq' = <<>>
  /\ UNCHANGED <<ctor, registry, nextId, notifying, holding, sendq, incomingClosed, panic, reader, writer>>

\* close(ss.incoming): a sender parked on the channel panics.
closePanic(q) == IF q # <<>> THEN "send on closed channel" ELSE "none"

Close_CloseIncoming ==
  /\ panic = "none"
  /\ closePc = "epClosed"
  /\ closePc' = "done"
  /\ incomingClosed' = TRUE
  /\ panic' = closePanic(sendq)
  /\ UNCHANGED <<ctor, registry, hooks, reader, writer>>

epOpen == closePc \in {"idle", "nicRemoved", "stackClosed"}

\* ------------------------------------------ the stack and the hook
\* The stack's goroutines are anonymous: the model keeps how many of them are
\* at the start of the hook, which packets are held by hooks about to send,
\* and the packets of the hooks parked in the send, oldest first.
activeHooks == notifying + Cardinality(holding) + Len(sendq)

\* A stack goroutine puts a packet on the endpoint's queue and then runs the
\* registered notification (ss.ep.AddNotify(ss)) in its own context.
StackEnqueue(s) ==
  /\ panic = "none"
  /\ activeHooks < NumWorkers
  /\ epOpen
  /\ nextId <= MaxPackets
  /\ Len(epq) < queueSize
  /\ epq' = Append(epq, [id |-> nextId, proto |-> s.proto, valid |-> s.valid,
                         dst |-> s.dst, len |-> s.len])
  /\ nextId' = nextId + 1
  /\ notifying' = notifying + 1
  /\ UNCHANGED <<ctor, registry, closePc, holding, sendq, incomingClosed, panic, reader, writer>>

\* WriteNotify, lines 232-235: pkt := ss.ep.Read(); return if nil.
WriteNotify_Read ==
  /\ panic = "none"
  /\ notifying > 0
  /\ notifying' = notifying - 1
  /\ IF epq = <<>>
       THEN UNCHANGED <<epq, holding>>
       ELSE /\ holding' = holding \cup {Head(epq)}
            /\ epq' = Tail(epq)
  /\ UNCHANGED <<ctor, registry, closePc, nextId, sendq, incomingClosed, panic, reader, writer>>

\* A hook that sends without blocking: it drops the packet unless Read is
\* waiting in its blocking receive.
WriteNotify_Send_nonblocking(pkt) ==
  /\ panic = "none"
  /\ pkt \in holding
  /\ holding' = holding \ {pkt}
  /\ sendq' = IF rpc = "recv" /\ ~incomingClosed THEN Append(sendq, pkt) ELSE sendq
  /\ UNCHANGED <<ctor, registry, closePc, epq, nextId, notifying, incomingClosed, panic, reader, writer>>

\* WriteNotify, line 237: ss.incoming <- pkt. The sender parks until Read
\* takes the packet; on a closed channel it panics.
WriteNotify_Send(pkt) ==
  /\ panic = "none"
  /\ pkt \in holding
  /\ IF incomingClosed
       THEN /\ panic' = "send on closed channel"
            /\ UNCHANGED <<holding, sendq>>
       ELSE /\ sendq' = Append(sendq, pkt)
            /\ holding' = holding \ {pkt}
            /\ UNCHANGED panic
  /\ UNCHANGED <<ctor, registry, closePc, epq, nextId, notifying, incomingClosed, reader, writer>>

\* -------------------------------------------------- Read (lines 131-205)
\* A buffer is a sequence of cells; <<0, 0>> is a byte Read has not written,
\* <<id, j>> is byte j of packet id.
Untouched == <<0, 0>>
NoSize == -1                 \* a sizes entry Read has not written
NoDest == "untouched"        \* a destinations entry Read has not written

freshBuf(cap) == [j \in 1..cap |-> Untouched]

\* lines 137-154: the checks on the network header.
headerError(pkt) ==
  IF pkt.proto = 4 THEN (IF pkt.valid THEN "nil" ELSE "invalid IPv4 header")
  ELSE IF pkt.proto = 6 THEN (IF pkt.valid THEN "nil" ELSE "invalid IPv6 header")
  ELSE "unknown network protocol"

\* lines 162-169: view.Read(bufs[idx][offset:]) copies as many bytes as fit.
copyInto(buf, off, pkt) ==
  LET n == Min(Len(buf) - off, pkt.len)
  IN [j \in 1..Len(buf) |-> IF j > off /\ j <= off + n THEN <<pkt.id, j - off>> ELSE buf[j]]

copied(buf, off, pkt) == Min(Len(buf) - off, pkt.len)

\* A packetFn that does not look at ok after the lookup: a packet whose
\* destination has no peer is copied out and counted like any other.
packetFn_ignoresUnresolved(idx, pkt, B, S, D, off) ==
  LET same == [err |-> "nil", panic |-> "none", bufs |-> B, sizes |-> S, destinations |-> D]
      herr == headerError(pkt)
      ok == pkt.dst \in DOMAIN fromPeerAddress
      D2 == [D EXCEPT ![idx + 1] = IF ok THEN fromPeerAddress[pkt.dst] ELSE ZeroKey]
  IN IF herr # "nil" THEN [same EXCEPT !.err = herr]
     ELSE IF idx >= Len(D) THEN [same EXCEPT !.panic = "index out of range"]
     ELSE IF off > Len(B[idx + 1])
       THEN [same EXCEPT !.panic = "slice bounds out of range", !.destinations = D2]
     ELSE [same EXCEPT !.destinations = D2,
                       !.bufs = [B EXCEPT ![idx + 1] = copyInto(B[idx + 1], off, pkt)],
                       !.sizes = [S EXCEPT ![idx + 1] = copied(B[idx + 1], off, pkt)]]

\* packetFn (lines 132-172) on the Go index idx: the error it returns, or the
\* panic it raises, and the arrays as it leaves them. sizes and destinations
\* are as long as bufs.
packetFn(idx, pkt, B, S, D, off) ==
  LET same == [err |-> "nil", panic |-> "none", bufs |-> B, sizes |-> S, destinations |-> D]
      herr == headerError(pkt)
      ok == pkt.dst \in DOMAIN fromPeerAddress
      D2 == [D EXCEPT ![idx + 1] = IF ok THEN fromPeerAddress[pkt.dst] ELSE ZeroKey]
  IN IF herr # "nil" THEN [same EXCEPT !.err = herr]
     ELSE IF idx >= Len(D) THEN [same EXCEPT !.panic = "index out of range"]
     ELSE IF ~ok THEN [same EXCEPT !.err = "unknown destination address", !.destinations = D2]
     ELSE IF off > Len(B[idx + 1])
       THEN [same EXCEPT !.panic = "slice bounds out of range", !.destinations = D2]
     ELSE [same EXCEPT !.destinations = D2,
                       !.bufs = [B EXCEPT ![idx + 1] = copyInto(B[idx + 1], off, pkt)],
                       !.sizes = [S EXCEPT ![idx + 1] = copied(B[idx + 1], off, pkt)]]

\* line 133: defer pkt.DecRef(). The deferred call runs once however packetFn
\* ends: with nil, with the error err, or unwinding the panic pan.
decRefs_onSuccessOnly(err, pan) == IF err = "nil" /\ pan = "none" THEN 1 ELSE 0

decRefs(err, pan) == 1

\* The caller hands Read nb buffers of cap bytes each and an offset.
Read_Call(nb, cap, off) ==
  /\ panic = "none"
  /\ rpc = "idle"
  /\ rpc' = "recv"
  /\ bufs' = [i \in 1..nb |-> freshBuf(cap)]
  /\ sizes' = [i \in 1..nb |-> NoSize]
  /\ destinations' = [i \in 1..nb |-> NoDest]
  /\ offset' = off
  /\ count' = 0
  /\ rret' = NoRet
  /\ rAfterClose' = (closePc = "done")
  /\ UNCHANGED <<ctor, registry, closePc, hooks, incomingClosed, panic, pktlog, writer>>

\* Read returns (n, err).
return(n, err) ==
  /\ rpc' = "idle"
  /\ rret' = [n |-> n, err |-> err]

\* Read has received the packet of the hook at the head of the send queue
\* (that hook returns) and runs packetFn(count, pkt) (lines 181-185 and 194-198).
receive ==
  LET pkt == Head(sendq)
      r == packetFn(count, pkt, bufs, sizes, destinations, offset)
  IN /\ sendq' = Tail(sendq)
     /\ bufs' = r.bufs
     /\ sizes' = r.sizes
     /\ destinations' = r.destinations
     /\ panic' = r.panic
     /\ received' = [received EXCEPT ![pkt.id] = @ + 1]
     /\ released' = [released EXCEPT ![pkt.id] = @ + decRefs(r.err, r.panic)]
     /\ rejected' = IF r.panic = "none" /\ r.err # "nil" THEN rejected \cup {pkt.id} ELSE rejected
     /\ IF r.panic # "none" THEN UNCHANGED <<rpc, rret, count, delivered>>
        ELSE IF r.err # "nil" THEN return(count, r.err) /\ UNCHANGED <<count, delivered>>
        ELSE /\ count' = count + 1
             /\ rpc' = "drain"
             /\ delivered' = Append(delivered, pkt.id)
             /\ UNCHANGED rret
     /\ UNCHANGED <<ctor, registry, closePc, epq, nextId, notifying, holding, incomingClosed,
                     offset, rAfterClose, writer>>

\* A Read that does not look at ok: on a closed queue it goes on waiting.
Read_First_ignoresClose ==
  /\ panic = "none"
  /\ rpc = "recv"
  /\ sendq # <<>>
  /\ receive

\* lines 176-185: the blocking receive of the first packet.
Read_First ==
  /\ panic = "none"
  /\ rpc = "recv"
  /\ IF sendq # <<>> THEN receive
     ELSE /\ incomingClosed
          /\ return(0, "net.ErrClosed")
          /\ UNCHANGED <<ctor, registry, closePc, hooks, incomingClosed, panic, bufs, sizes,
                         destinations, offset, count, rAfterClose, pktlog, writer>>

\* A drain that treats the closed queue like the first receive does: it
\* returns count 0 with the closed error, discarding what it has consumed.
Read_Drain_discardsOnClose ==
  /\ panic = "none"
  /\ rpc = "drain"
  /\ IF count >= Len(bufs)
       THEN /\ return(count, "nil")
            /\ UNCHANGED <<ctor, registry, closePc, hooks, incomingClosed, panic, bufs, sizes,
                           destinations, offset, count, rAfterClose, pktlog, writer>>
     ELSE IF sendq # <<>> THEN receive
     ELSE /\ IF incomingClosed THEN return(0, "net.ErrClosed") ELSE return(count, "nil")
          /\ UNCHANGED <<ctor, registry, closePc, hooks, incomingClosed, panic, bufs, sizes,
                         destinations, offset, count, rAfterClose, pktlog, writer>>

\* lines 187-204: one turn of the loop, with its non-blocking select.
Read_Drain ==
  /\ panic = "none"
  /\ rpc = "drain"
  /\ IF count >= Len(bufs)
       THEN /\ return(count, "nil")
            /\ UNCHANGED <<ctor, registry, closePc, hooks, incomingClosed, panic, bufs, sizes,
                           destinations, offset, count, rAfterClose, pktlog, writer>>
     ELSE IF sendq # <<>> THEN receive
     ELSE /\ return(count, IF incomingClosed THEN "net.ErrClosed" ELSE "nil")
          /\ UNCHANGED <<ctor, registry, closePc, hooks, incomingClosed, panic, bufs, sizes,
                         destinations, offset, count, rAfterClose, pktlog, writer>>

\* ------------------------------------------------- Write (lines 207-225)
\* Payloads are byte sequences; 69 = 0x45, 96 = 0x60.
WriteBufs == {<<>>, <<69>>, <<96>>, <<0>>, <<0, 69>>, <<69, 0>>}
WriteOffsets == {0, 1}

RECURSIVE SeqsUpTo(_, _)
SeqsUpTo(S, n) ==
  IF n = 0 THEN {<<>>}
  ELSE LET shorter == SeqsUpTo(S, n - 1)
       IN shorter \cup {Append(q, x) : q \in {t \in shorter : Len(t) = n - 1}, x \in S}

\* A Write that skips a payload of an unsupported family and goes on with the
\* rest of the batch, reporting the error at the end.
RECURSIVE writeLoop_skipsUnsupported(_, _, _, _)
writeLoop_skipsUnsupported(B, off, i, inj) ==
  IF i > Len(B)
    THEN IF \E k \in 1..Len(B) : Len(B[k]) > off /\ B[k][off + 1] \div 16 \notin {4, 6}
           THEN [n |-> 0, err |-> "EAFNOSUPPORT", injected |-> inj]
           ELSE [n |-> Len(B), err |-> "nil", injected |-> inj]
  ELSE IF Len(B[i]) <= off THEN writeLoop_skipsUnsupported(B, off, i + 1, inj)
  ELSE LET family == B[i][off + 1] \div 16
           payload == SubSeq(B[i], off + 1, Len(B[i]))
       IN IF family \in {4, 6}
            THEN writeLoop_skipsUnsupported(B, off, i + 1,
                   Append(inj, [proto |-> family, payload |-> payload, from |-> i]))
          ELSE writeLoop_skipsUnsupported(B, off, i + 1, inj)

\* The loop of Write from buffer i on: what it has handed to ep.InjectInbound
\* (inj) and what it returns.
RECURSIVE writeLoop(_, _, _, _)
writeLoop(B, off, i, inj) ==
  IF i > Len(B) THEN [n |-> Len(B), err |-> "nil", injected |-> inj]
  ELSE IF Len(B[i]) <= off THEN writeLoop(B, off, i + 1, inj)
  ELSE LET family == B[i][off + 1] \div 16
           payload == SubSeq(B[i], off + 1, Len(B[i]))
       IN IF family = 4
            THEN writeLoop(B, off, i + 1, Append(inj, [proto |-> 4, payload |-> payload, from |-> i]))
          ELSE IF family = 6
            THEN writeLoop(B, off, i + 1, Append(inj, [proto |-> 6, payload |-> payload, from |-> i]))
          ELSE [n |-> 0, err |-> "EAFNOSUPPORT", injected |-> inj]

\* A Write call run to its return in one step: the stack emits nothing while
\* the payloads are injected.
Write(B, off) ==
  /\ panic = "none"
  /\ wpc = "idle"
  /\ LET r == writeLoop(B, off, 1, <<>>)
     IN /\ wret' = [n |-> r.n, err |-> r.err]
        /\ winjected' = r.injected
  /\ wbufs' = B
  /\ woffset' = off
  /\ wAfterClose' = (closePc = "done")
  /\ UNCHANGED <<ctor, registry, closePc, hooks, incomingClosed, panic, reader, wctx>>

\* Write step by step. ep.InjectInbound hands the payload to the stack in the
\* caller's goroutine; a stack that answers at once (an ICMP echo reply, a TCP
\* reset) puts the answer on the VNI queue and runs the notification hook
\* before InjectInbound returns, all inside the Write call.
Write_Call(B, off) ==
  /\ panic = "none"
  /\ wpc = "idle"
  /\ wpc' = "loop"
  /\ wi' = 1
  /\ wbufs' = B
  /\ woffset' = off
  /\ wret' = NoRet
  /\ winjected' = <<>>
  /\ wAfterClose' = (closePc = "done")
  /\ UNCHANGED <<ctor, registry, closePc, hooks, incomingClosed, panic, reader, wheld>>

\* Write returns (n, err).
wreturn(n, err) ==
  /\ wpc' = "idle"
  /\ wret' = [n |-> n, err |-> err]

\* lines 208-222: one turn of the loop, up to InjectInbound's call of the hook.
Write_Loop ==
  /\ panic = "none"
  /\ wpc = "loop"
  /\ IF wi > Len(wbufs)
       THEN wreturn(Len(wbufs), "nil") /\ UNCHANGED <<wi, winjected, epq, nextId>>
     ELSE IF Len(wbufs[wi]) <= woffset
       THEN wi' = wi + 1 /\ UNCHANGED <<wpc, wret, winjected, epq, nextId>>
     ELSE LET family == wbufs[wi][woffset + 1] \div 16
              payload == SubSeq(wbufs[wi], woffset + 1, Len(wbufs[wi]))
          IN IF family \in {4, 6}
               THEN /\ winjected' = Append(winjected, [proto |-> family, payload |-> payload, from |-> wi])
                    /\ UNCHANGED wret
                    /\ \/ wi' = wi + 1 /\ UNCHANGED <<wpc, epq, nextId>>
                       \/ \E s \in PacketShapes :
                            /\ epOpen
                            /\ nextId <= MaxPackets
                            /\ Len(epq) < queueSize
                            /\ epq' = Append(epq, [id |-> nextId, proto |-> s.proto,
                                                   valid |-> s.valid, dst |-> s.dst, len |-> s.len])
                            /\ nextId' = nextId + 1
                            /\ wpc' = "notify"
                            /\ UNCHANGED wi
             ELSE wreturn(0, "EAFNOSUPPORT") /\ UNCHANGED <<wi, winjected, epq, nextId>>
  /\ UNCHANGED <<ctor, registry, closePc, notifying, holding, sendq, incomingClosed, panic, reader,
                 wbufs, woffset, wAfterClose, wheld>>

\* The hook inside Write, lines 232-235: pkt := ss.ep.Read(); return if nil.
Write_Notify ==
  /\ panic = "none"
  /\ wpc = "notify"
  /\ IF epq = <<>>
       THEN wpc' = "loop" /\ wi' = wi + 1 /\ UNCHANGED <<epq, wheld>>
       ELSE wpc' = "send" /\ wheld' = Head(epq) /\ epq' = Tail(epq) /\ UNCHANGED wi
  /\ UNCHANGED <<ctor, registry, closePc, nextId, notifying, holding, sendq, incomingClosed, panic,
                 reader, wcall>>

\* The hook inside Write, line 237: ss.incoming <- pkt parks the goroutine
\* that called Write.
Write_HookSend ==
  /\ panic = "none"
  /\ wpc = "send"
  /\ IF incomingClosed
       THEN panic' = "send on closed channel" /\ UNCHANGED <<sendq, wpc>>
       ELSE sendq' = Append(sendq, wheld) /\ wpc' = "parked" /\ UNCHANGED panic
  /\ UNCHANGED <<ctor, registry, closePc, epq, nextId, notifying, holding, incomingClosed, reader,
                 wcall, wi, wheld>>

\* Read has taken the packet: the send returns, the hook returns,
\* InjectInbound returns and Write goes on with the next buffer.
Write_Resume ==
  /\ panic = "none"
  /\ wpc = "parked"
  /\ wheld \notin Range(sendq)
  /\ wpc' = "loop"
  /\ wi' = wi + 1
  /\ wheld' = NoPacket
  /\ UNCHANGED <<ctor, registry, closePc, hooks, incomingClosed, panic, reader, wcall>>

\* ------------------------------------------------------- specifications
\* <<capacity, offset>> of the buffers handed to Read: one byte and no
\* header room, or room for a one-byte header and the longest packet.
ReadShapes == {<<1, 0>>, <<MaxPktLen + 1, 1>>}
AddrLists == SeqsUpTo(Addrs, 2)

Close ==
  \/ Close_RemoveNIC
  \/ Close_StackClose
  \/ Close_EpClose
  \/ Close_CloseIncoming

\* The send of the hook that holds packet number id.
WriteNotify_SendId(id) == \E pkt \in holding : pkt.id = id /\ WriteNotify_Send(pkt)

WriteNotify ==
  \/ WriteNotify_Read
  \/ \E id \in 1..MaxPackets : WriteNotify_SendId(id)

Stack == \E s \in PacketShapes : StackEnqueue(s)

Read ==
  \/ \E nb \in 0..MaxBufs, sh \in ReadShapes : Read_Call(nb, sh[1], sh[2])
  \/ Read_First
  \/ Read_Drain

\* Registration on the read path: peer "b" (P1) is registered with 10.0.0.2,
\* and after it an unnamed peer P2 with 10.0.0.2 and fd00::2, each once.
RegisterInputs == <<  <<"b", "P1", <<"10.0.0.2">>>>, <<"", "P2", <<"10.0.0.2", "fd00::2">>>>  >>

Register ==
  /\ Len(addLog) < Len(RegisterInputs)
  /\ LET in == RegisterInputs[Len(addLog) + 1] IN AddPeer(in[1], in[2], in[3])

\* The read path: registry, stack, hooks, Read and Close.
Next ==
  \/ Register
  \/ Stack
  \/ WriteNotify
  \/ Read
  \/ Close

Spec == Init /\ [][Next]_vars

\* The registry alone: any sequence of AddPeer calls.
Registry ==
  \E name \in Names, publicKey \in Keys, addrs \in AddrLists :
    /\ Len(addLog) < MaxAddPeer
    /\ AddPeer(name, publicKey, addrs)

SpecPeers == Init /\ [][Registry]_vars

\* The write path: Write and Close.
Sink ==
  \E B \in SeqsUpTo(WriteBufs, MaxWriteBatch), off \in WriteOffsets : Write(B, off)

NextSink ==
  \/ Sink
  \/ Close

SpecSink == Init /\ [][NextSink]_vars

\* The read path under the scheduling the Go runtime gives: a goroutine that
\* can run does run. Whether the stack emits a packet, whether Close is called
\* and whether the transport calls Read again are the environment's choice.
Fairness ==
  /\ WF_vars(WriteNotify_Read)
  /\ \A id \in 1..MaxPackets : WF_vars(WriteNotify_SendId(id))
  /\ WF_vars(Read_First)
  /\ WF_vars(Read_Drain)
  /\ WF_vars(Close_StackClose)
  /\ WF_vars(Close_EpClose)
  /\ WF_vars(Close_CloseIncoming)

FairSpec == Spec /\ Fairness

\* The open adapter with a transport that keeps reading: Close is not called,
\* and Read is called again and again with at least one buffer, each with
\* room for the header and the longest packet.
Read_Live ==
  \/ \E nb \in 1..MaxBufs : Read_Call(nb, MaxPktLen + 1, 1)
  \/ Read_First
  \/ Read_Drain

NextLive ==
  \/ Register
  \/ Stack
  \/ WriteNotify
  \/ Read_Live

LiveSpec ==
  /\ Init
  /\ [][NextLive]_vars
  /\ WF_vars(WriteNotify_Read)
  /\ \A id \in 1..MaxPackets : WF_vars(WriteNotify_SendId(id))
  /\ WF_vars(Read_Live)

\* The write path next to the read path on the open adapter: Write calls whose
\* injections the stack may answer at once, and a transport that may call Read.
WriteBatches == SeqsUpTo({<<69>>, <<96>>, <<0>>}, MaxWriteBatch)

WritePath ==
  \/ \E B \in WriteBatches : Write_Call(B, 0)
  \/ Write_Loop
  \/ Write_Notify
  \/ Write_HookSend
  \/ Write_Resume

NextDuplex ==
  \/ Register
  \/ WritePath
  \/ Read_Live

\* A goroutine that can run does run; whether the transport calls Write or
\* Read at all is the transport's choice.
DuplexSpec ==
  /\ Init
  /\ [][NextDuplex]_vars
  /\ WF_vars(Write_Loop)
  /\ WF_vars(Write_Notify)
  /\ WF_vars(Write_HookSend)
  /\ WF_vars(Write_Resume)
  /\ WF_vars(Read_First)
  /\ WF_vars(Read_Drain)

\* Construction alone.
newSourceSink ==
  \/ \E addrs \in SeqsUpTo(LocalAddrs, MaxLocalAddrs) : newSourceSink_Call(addrs)
  \/ newSourceSink_SetOption
  \/ newSourceSink_CreateNIC
  \/ newSourceSink_AddAddress
  \/ newSourceSink_Routes

SpecConstruct == InitConstruct /\ [][newSourceSink]_vars

\* ================================================================ claims
Increasing(q) == \A i, j \in 1..Len(q) : i < j => q[i] < q[j]

\* Packet p is on its way from the VNI outbound queue to Read.
InFlight(p) == p \in Range(epq) \cup holding \cup Range(sendq)

\* line 157: the lookup in the AddressIndex.
ResolvePeerByAddress(a) ==
  IF a \in DOMAIN fromPeerAddress THEN fromPeerAddress[a] ELSE "NotFound"

\* C1: in every interleaving of Close with the hooks, no hook sends on the
\* delivery queue after it has been closed (and none is parked in its send
\* when it is closed): the "send on closed channel" panic is unreachable.
C1_NoSendOnClosedQueue == panic # "send on closed channel"

\* Buffer buf holds the whole of packet p after off bytes of header room.
holdsPayload(buf, off, p) ==
  /\ Len(buf) >= off + p.len
  /\ \A j \in 1..p.len : buf[off + j] = <<p.id, j>>

\* The Read call that has just returned reports packet p.
Returned(p) ==
  /\ rpc = "idle"
  /\ rret.n >= 1
  /\ \E i \in 1..rret.n :
       /\ holdsPayload(bufs[i], offset, p)
       /\ sizes[i] = p.len
       /\ destinations[i] = ResolvePeerByAddress(p.dst)

\* C2: on the open adapter with a transport that keeps reading, every valid
\* packet in flight whose destination is registered is eventually returned by
\* a Read call: whole, after the header room, with its length in sizes and
\* the peer its destination resolves to in destinations.
C2_NoLostWakeup ==
  \A p \in {q \in Packets : headerError(q) = "nil"} :
    (InFlight(p) /\ p.dst \in DOMAIN fromPeerAddress) ~> Returned(p)

\* C2 witness: the packets 1 and 2 have been filled in, in that order, and the
\* Read call that has just returned reports packet 2 with its peer.
C2_Witness ==
  \E p \in Packets : p.id = 2 /\ Returned(p) /\ delivered = <<1, 2>>

\* The addresses some AddPeer call has listed.
everAdded == UNION {Range(addLog[i].addrs) : i \in 1..Len(addLog)}

\* The peer of the latest AddPeer call in log that listed address a.
lastOwner(log, a) ==
  LET I == {i \in 1..Len(log) : a \in Range(log[i].addrs)}
  IN IF I = {} THEN "NotFound"
     ELSE log[CHOOSE i \in I : \A k \in I : k <= i].publicKey

\* C3 (as claimed): every address in the address list of a registered peer P
\* resolves to P, and an address never passed to AddPeer resolves to NotFound.
C3_ListedAddressResolvesToItsPeer ==
  /\ \A P \in DOMAIN peerAddresses : \A a \in Range(peerAddresses[P]) :
       ResolvePeerByAddress(a) = P
  /\ \A a \in Addrs \ everAdded : ResolvePeerByAddress(a) = "NotFound"

\* C3 (amended): every address in the address list of a registered peer
\* resolves to the peer of the latest AddPeer call that listed it (to P itself
\* unless a different peer listed it later), that peer's list holds it, and an
\* address never passed to AddPeer resolves to NotFound.
C3_ListedAddressResolvesToLastRegistrant ==
  /\ \A P \in DOMAIN peerAddresses : \A a \in Range(peerAddresses[P]) :
       /\ ResolvePeerByAddress(a) = lastOwner(addLog, a)
       /\ a \in Range(peerAddresses[ResolvePeerByAddress(a)])
  /\ \A a \in everAdded : \E P \in DOMAIN peerAddresses : a \in Range(peerAddresses[P])
  /\ \A a \in Addrs \ everAdded : ResolvePeerByAddress(a) = "NotFound"

\* C3 witness: two different peers have registered the same address.
C3_Witness ==
  \E i, j \in 1..Len(addLog) :
    /\ i < j
    /\ addLog[i].publicKey # addLog[j].publicKey
    /\ Range(addLog[i].addrs) \cap Range(addLog[j].addrs) # {}

\* C4: the count Write returns is the number of payloads it injected (before
\* the rejection, when a payload is rejected).
C4_WriteCountIsInjected == wret # NoRet => wret.n = Len(winjected)

\* C5: Read never returns a count above the number of buffers and never
\* indexes bufs, sizes or destinations at or beyond len(bufs).
C5_ReadStaysWithinBuffers ==
  /\ panic \notin {"index out of range", "slice bounds out of range"}
  /\ rret.n <= Len(bufs)

\* C6: a Read call that has consumed a packet terminates.
C6_DrainTerminates == (rpc = "drain") ~> (rpc = "idle")

C8_CloseCancelsBlockedRead ==
  (rpc = "recv" /\ sendq = <<>> /\ incomingClosed)
    ~> (rpc = "idle" /\ rret = [n |-> 0, err |-> "net.ErrClosed"])

\* C9: a Write call made after Close has returned returns the closed error and
\* reports no payload as processed.
C9_WriteAfterCloseIsClosed ==
  wAfterClose => (wret.err = "net.ErrClosed" /\ wret.n = 0)

\* C10: Read fills packets in the order the stack put them on the VNI
\* outbound queue (packet ids are given in that order).
C10_DeliveredInQueueOrder == Increasing(delivered)

\* Packet number id is on its way from the VNI outbound queue to Read.
InFlightId(id) == \E p \in Packets : p.id = id /\ InFlight(p)

\* packetFn rejects pkt: its header is malformed or of an unknown protocol, or
\* its destination address has no registered peer.
Malformed(pkt) == headerError(pkt) # "nil"
Unresolved(pkt) == headerError(pkt) = "nil" /\ pkt.dst \notin DOMAIN fromPeerAddress

\* Slot i of the running/last Read is filled with the i-th packet that call
\* consumed: its bytes after the header room and nothing else, the number of
\* bytes in sizes, a registered peer in destinations.
FilledSlot(i) ==
  LET id == delivered[Len(delivered) - count + i]
  IN /\ sizes[i] \in 0..(Len(bufs[i]) - offset)
     /\ \A j \in 1..Len(bufs[i]) :
          bufs[i][j] = IF j > offset /\ j <= offset + sizes[i] THEN <<id, j - offset>>
                       ELSE Untouched
     /\ destinations[i] \in Keys

\* Read takes the packet at the head of the delivery queue in this step.
ReadReceives == panic = "none" /\ rpc # "idle" /\ sendq # <<>> /\ sendq' = Tail(sendq)

\* C11: when Read meets a malformed or unresolved packet at position k of its
\* batch (k = count, a position the batch has), it returns count k with an
\* error in that step and leaves the k slots before it as they were, each
\* filled with the packet consumed into it; the rejected packet is not put
\* back on any queue and is never filled in by this or a later Read.
C11_RejectedPacketStopsRead ==
  /\ [](\A i \in 1..count : FilledSlot(i))
  /\ [](\A id \in rejected : ~InFlightId(id) /\ id \notin Range(delivered))
  /\ [][(/\ ReadReceives
          /\ count < Len(bufs)
          /\ (Malformed(Head(sendq)) \/ Unresolved(Head(sendq))))
         => /\ rpc' = "idle"
            /\ rret'.n = count
            /\ rret'.err \notin {"nil", "net.ErrClosed", "none"}
            /\ count' = count
            /\ \A i \in 1..count :
                 bufs'[i] = bufs[i] /\ sizes'[i] = sizes[i] /\ destinations'[i] = destinations[i]
            /\ Head(sendq).id \in rejected']_vars

\* C11 witness: a Read call has returned count 1 with the error of a packet
\* it rejected at position 1, slot 0 still filled.
C11_Witness ==
  /\ rpc = "idle"
  /\ rret.n = 1
  /\ rret.err \in {"invalid IPv4 header", "invalid IPv6 header", "unknown network protocol",
                    "unknown destination address"}
  /\ rejected # {}
  /\ FilledSlot(1)

\* Buffer i of the last Write's batch has a payload after the offset, and the
\* leading nibble of that payload.
hasPayload(i) == Len(wbufs[i]) > woffset
leadingNibble(i) == wbufs[i][woffset + 1] \div 16

\* The buffers with a payload of a family Write does not support, and the
\* buffers Write is to inject: those with a payload before the first of them.
unsupportedAt == {i \in 1..Len(wbufs) : hasPayload(i) /\ leadingNibble(i) \notin {4, 6}}
toInject == {i \in 1..Len(wbufs) : hasPayload(i) /\ \A b \in unsupportedAt : i < b}

\* C12: Write injects exactly the payloads that are non-empty after offset
\* and come before the first payload of an unsupported family, each once, in
\* batch order, whole, as IPv4 exactly when its leading nibble is 4 and as
\* IPv6 exactly when it is 6; when there is a payload of another family it
\* returns the unsupported-address-family error.
C12_WriteInjectsByLeadingNibble ==
  wret # NoRet =>
    /\ {winjected[k].from : k \in 1..Len(winjected)} = toInject
    /\ \A k, l \in 1..Len(winjected) : k < l => winjected[k].from < winjected[l].from
    /\ \A k \in 1..Len(winjected) :
         LET i == winjected[k].from
         IN /\ winjected[k].payload # <<>>
            /\ winjected[k].payload = SubSeq(wbufs[i], woffset + 1, Len(wbufs[i]))
            /\ winjected[k].proto = 4 <=> leadingNibble(i) = 4
            /\ winjected[k].proto = 6 <=> leadingNibble(i) = 6
    /\ unsupportedAt # {} => wret.err = "EAFNOSUPPORT"

\* C12 witness: a Write that injected an IPv4 payload and then met a payload
\* of an unsupported family.
C12_Witness ==
  /\ wret.err = "EAFNOSUPPORT"
  /\ Len(winjected) = 1
  /\ winjected[1].proto = 4
  /\ \E b \in unsupportedAt : winjected[1].from < b

\* C13: the AddressIndex entry of every registered address is the peer of
\* the latest AddPeer call that listed it, AddPeer raises no error when it
\* overwrites an entry, and every packet Read fills in is tagged with the
\* peer of the latest AddPeer call that listed the packet's destination.
C13_LastRegistrationWins ==
  /\ [](\A a \in everAdded : ResolvePeerByAddress(a) = lastOwner(addLog, a))
  /\ [][addLog' # addLog => panic' = "none"]_vars
  /\ [][delivered' # delivered =>
          destinations'[count + 1] = lastOwner(addLog, Head(sendq).dst)]_vars

\* C13 witness: 10.0.0.2 was registered for P1 and then for P2, and Read has
\* filled slot 0 with the long IPv4 packet to 10.0.0.2, tagged P2.
C13_Witness ==
  /\ Len(addLog) = 2
  /\ addLog[1].publicKey = "P1" /\ addLog[2].publicKey = "P2"
  /\ "10.0.0.2" \in Range(addLog[1].addrs) \cap Range(addLog[2].addrs)
  /\ count >= 1
  /\ sizes[1] = MaxPktLen
  /\ destinations[1] = "P2"

\* How many packets numbered id sequence q holds, and set S holds.
inSeq(q, id) == Cardinality({i \in 1..Len(q) : q[i].id = id})
inSet(S, id) == Cardinality({p \in S : p.id = id})

\* A hook has taken packet number id off the VNI queue and Read has not yet
\* received it: that hook is about to send, or is parked in its send.
HookHolds(id) == inSet(holding, id) + inSeq(sendq, id) > 0

\* C14: on the open adapter every packet the stack has emitted is in exactly
\* one place: on the VNI queue, held by one running hook (about to send or
\* parked in its send, whether or not a Read is running), or received by
\* Read, once; and every packet a hook holds is eventually received by Read.
C14_HookHandsEachPacketToOneRead ==
  /\ [](\A id \in 1..MaxPackets :
          inSeq(epq, id) + inSet(holding, id) + inSeq(sendq, id) + received[id]
            = IF id < nextId THEN 1 ELSE 0)
  /\ \A id \in 1..MaxPackets : HookHolds(id) ~> (received[id] = 1 /\ ~HookHolds(id))

\* C14 witness: no Read is running, one hook is parked in its send with
\* packet 2, and packet 1 has been received by an earlier Read.
C14_Witness ==
  /\ rpc = "idle"
  /\ received[1] = 1
  /\ inSeq(sendq, 2) = 1

\* C15: a Write call completes whether or not a Read call ever runs.
C15_WriteCompletes == (wpc # "idle") ~> (wpc = "idle")

\* C16: whenever Read fills a slot with the packet it has dequeued, the first
\* offset bytes of the buffer are left as they were, sizes holds the length
\* of that packet, which is at most len(buf) - offset, and the whole packet
\* stands in the buffer from position offset on.
C16_ReadCopiesWholePacket ==
  [][delivered' # delivered =>
       LET i == count + 1
           pkt == Head(sendq)
       IN /\ \A j \in 1..offset : bufs'[i][j] = bufs[i][j]
          /\ sizes'[i] = pkt.len
          /\ sizes'[i] <= Len(bufs[i]) - offset
          /\ holdsPayload(bufs'[i], offset, pkt)]_vars

\* C17: when newSourceSink has returned: if a configuration step failed it
\* returned an error, no adapter and no stack handle; otherwise it returned
\* both and no error, NIC 1 has one protocol address per supplied address, of
\* that address's IP version, and the stack has a default route for IPv4
\* exactly when an IPv4 address was supplied and for IPv6 exactly when an
\* IPv6 address was supplied.
C17_ConstructInstallsAddressesAndRoutes ==
  cpc = "done" =>
    IF cfailed
      THEN cret.err # "nil" /\ cret.ss = "nil" /\ cret.net = "nil"
      ELSE /\ cret = [ss |-> "ss", net |-> "n", err |-> "nil"]
           /\ Len(protoAddrs) = Len(localAddrs)
           /\ \A i \in 1..Len(localAddrs) :
                /\ protoAddrs[i].addr = localAddrs[i]
                /\ protoAddrs[i].proto = 4 <=> Is4(localAddrs[i])
                /\ protoAddrs[i].proto = 6 <=> Is6(localAddrs[i])
           /\ 4 \in routes <=> \E i \in 1..Len(localAddrs) : Is4(localAddrs[i])
           /\ 6 \in routes <=> \E i \in 1..Len(localAddrs) : Is6(localAddrs[i])

\* C17 witness: constructed with an IPv4 address only.
C17_Witness ==
  /\ cpc = "done"
  /\ ~cfailed
  /\ localAddrs = <<"10.0.0.1">>
  /\ routes = {4}

\* C18: when a Read call has returned count n, every slot from index n on is
\* as the caller handed it in: buffer, sizes entry and destinations entry.
C18_ReadWritesOnlyReportedSlots ==
  (rpc = "idle" /\ rret # NoRet) =>
    \A j \in (rret.n + 1)..Len(bufs) :
      /\ bufs[j] = freshBuf(Len(bufs[j]))
      /\ sizes[j] = NoSize
      /\ destinations[j] = NoDest

\* C19: a Read call in its drain loop (k = count >= 1 packets consumed, room
\* left in the batch) that finds the delivery queue closed is not blocked and
\* returns count k with the closed error, leaving the k slots it filled as
\* they are, each holding the packet consumed into it.
C19_CloseDuringDrainReportsConsumed ==
  /\ []((rpc = "drain" /\ panic = "none") => (count >= 1 /\ ENABLED Read_Drain))
  /\ [][(rpc = "drain" /\ count < Len(bufs) /\ incomingClosed /\ rpc' = "idle") =>
          /\ rret' = [n |-> count, err |-> "net.ErrClosed"]
          /\ count' = count
          /\ bufs' = bufs /\ sizes' = sizes /\ destinations' = destinations
          /\ \A i \in 1..count : FilledSlot(i)]_vars

\* C19 witness: a Read call with room left in its batch has returned one
\* packet together with the closed error.
C19_Witness ==
  /\ rpc = "idle"
  /\ rret = [n |-> 1, err |-> "net.ErrClosed"]
  /\ Len(bufs) > 1
  /\ FilledSlot(1)

\* C20: every packet Read has received from the delivery queue has been
\* received once and released (DecRef) exactly once by Read, whether packetFn
\* filled it in or rejected it; a packet Read has not received is not
\* released by Read.
C20_ReceivedPacketReleasedOnce ==
  \A id \in 1..MaxPackets :
    /\ received[id] <= 1
    /\ released[id] = received[id]

\* C20 witness: Read has filled in one packet and rejected another, and has
\* released both.
C20_Witness ==
  \E a, b \in 1..MaxPackets :
    /\ a \in Range(delivered) /\ released[a] = 1
    /\ b \in rejected /\ released[b] = 1

====
